---- MODULE Spec2Model ----
(***************************************************************************)
(* yt-web-summarizer: the request pipeline (src/app.py main, src/api/       *)
(* summarize.py summarize) with its rate limiter and TTL cache              *)
(* (src/utils.py).                                                          *)
(*                                                                          *)
(* Time: time.time() is a float number of seconds.  The clock is modelled   *)
(* in ticks, TicksPerSec ticks to the second, so that sub-second readings   *)
(* and the truncation done by int() are both present.  period_seconds and   *)
(* ttl_seconds stay in seconds, as in the code.                             *)
(***************************************************************************)
EXTENDS Integers, Sequences, FiniteSets, TLC

\* ------------------------------------------------------------------ bounds
TicksPerSec == 2
MaxTime == 5
MaxCalls == 2
MaxPeriod == 2
MaxLog == 4
MaxTtl == 1
MaxOps == 3
MaxRequests == 2
MaxUiTime == 3
MaxOver == 2
MaxKeyLen == 11
NThreads == 2
MaxRaceCalls == 3
MaxRaceTime == 2

\* how long, in ticks, a stage that takes time may take
Delays == {0, 1}

Identifiers == {"default", "ip1"}

VARIABLES
    now,             \* the clock, in ticks: what time.time() returns
    max_calls,       \* RateLimiter.max_calls
    period_seconds,  \* RateLimiter.period_seconds
    calls,           \* RateLimiter._calls: identifier -> list of timestamps
    log,             \* history: the is_allowed calls made, in order
    last,            \* observation: the last limiter operation and its result
    threads,         \* the is_allowed calls in progress: position and locals of each
    ttl_seconds,     \* SimpleCache.ttl_seconds
    cache,           \* SimpleCache._cache: md5 of the key -> {value, timestamp}
    clog,            \* history: the cache operations made, in order
    enable_rate_limiting,   \* config.ENABLE_RATE_LIMITING
    summarization_service,  \* st.session_state.summarization_service
    history,         \* st.session_state.history
    ui,              \* observation: the last run of main (the UI) and its stages
    rest,            \* observation: the last POST /summarize and its response
    svc              \* observation: the last direct call of a service or utility

limiterVars == <<max_calls, period_seconds, calls, log, last, threads>>
cacheVars == <<ttl_seconds, cache, clog>>
uiVars == <<enable_rate_limiting, summarization_service, history, ui>>
vars == <<now, limiterVars, cacheVars, uiVars, rest, svc>>

NoOp == [op |-> "none", id |-> "none", ret |-> 0, t |-> 0]

NoCall == [op |-> "none", arg |-> <<>>, out |-> <<>>]

Threads == 1..NThreads

\* a thread that is not inside is_allowed
Idle == [pc |-> "idle", now |-> 0, filtered |-> <<>>, seen |-> 0]

NoThreads == [p \in Threads |-> Idle]

\* Python's None, as a value no key, summary or cached value equals
None == "<None>"

\* ------------------------------------------------------------ RateLimiter
Min(S) == CHOOSE x \in S : \A y \in S : x <= y

Max2(a, b) == IF a >= b THEN a ELSE b

SeqRange(s) == {s[i] : i \in 1..Len(s)}

\* int(x) for x = n / TicksPerSec: truncation toward zero
IntOfTicks(n) == IF n >= 0 THEN n \div TicksPerSec ELSE -((-n) \div TicksPerSec)

\* ---------------------------------------------------------------- strings
\* the i-th character of the string s, as a string of length one
CharAt(s, i) == SubSeq(s, i, i)

\* the characters str.strip() and str.split() take for whitespace
IsSpace(ch) == ch \in {" ", "\t", "\n"}

StartsWith(s, prefix) == Len(s) >= Len(prefix) /\ SubSeq(s, 1, Len(prefix)) = prefix

\* s[n:]
DropPrefix(s, n) == SubSeq(s, n + 1, Len(s))

\* str.lstrip() and str.rstrip()
RECURSIVE lstrip(_)
lstrip(s) == IF s # "" /\ IsSpace(CharAt(s, 1)) THEN lstrip(DropPrefix(s, 1)) ELSE s

RECURSIVE rstrip(_)
rstrip(s) ==
    IF s # "" /\ IsSpace(CharAt(s, Len(s))) THEN rstrip(SubSeq(s, 1, Len(s) - 1)) ELSE s

\* str.strip()
Strip(text) == rstrip(lstrip(text))

\* s.replace(ch, "")
RECURSIVE Remove(_, _)
Remove(s, ch) ==
    IF s = "" THEN ""
    ELSE (IF CharAt(s, 1) = ch THEN "" ELSE CharAt(s, 1)) \o Remove(DropPrefix(s, 1), ch)

AlnumChars ==
    {"a", "b", "c", "d", "e", "f", "g", "h", "i", "j", "k", "l", "m", "n", "o", "p", "q",
     "r", "s", "t", "u", "v", "w", "x", "y", "z",
     "A", "B", "C", "D", "E", "F", "G", "H", "I", "J", "K", "L", "M", "N", "O", "P", "Q",
     "R", "S", "T", "U", "V", "W", "X", "Y", "Z",
     "0", "1", "2", "3", "4", "5", "6", "7", "8", "9"}

\* str.isalnum(): at least one character, and every character a letter or digit
isalnum(s) == Len(s) > 0 /\ \A i \in 1..Len(s) : CharAt(s, i) \in AlnumChars

\* len(text.split()): the number of maximal runs of non-whitespace characters
split_count(text) ==
    Cardinality({i \in 1..Len(text) :
                    /\ ~IsSpace(CharAt(text, i))
                    /\ (i = 1 \/ IsSpace(CharAt(text, i - 1)))})

\* utils.py 290: the default of words_per_minute
WORDS_PER_MINUTE == 200

\* mutant of estimate_reading_time: no floor at one minute
estimate_reading_time_unfloored(text, words_per_minute) ==
    split_count(text) \div words_per_minute

\* utils.py 290-302
estimate_reading_time(text, words_per_minute) ==
    LET word_count == split_count(text)
    IN Max2(1, word_count \div words_per_minute)

\* s repeated n times
RECURSIVE Repeat(_, _)
Repeat(s, n) ==
    IF n = 0 THEN ""
    ELSE LET half == Repeat(s, n \div 2)
         IN half \o half \o (IF n % 2 = 1 THEN s ELSE "")

\* sep.join(["word"] * n)
Words(n, sep) == IF n = 0 THEN "" ELSE Repeat("word" \o sep, n - 1) \o "word"

\* the list identifier id has in _calls c (the code creates [] on first use)
CallsOf(c, id) == IF id \in DOMAIN c THEN c[id] ELSE <<>>

\* utils.py 207-211: keep the calls made less than period_seconds before t
PruneKeeps(t, call_time) == t - call_time < period_seconds * TicksPerSec

Prune(ts, t) == SelectSeq(ts, LAMBDA call_time : PruneKeeps(t, call_time))

\* mutant of Admits: the comparison off by one
AdmitsOffByOne(pruned) == Len(pruned) <= max_calls

\* utils.py 213: the admission test on the pruned list
Admits(pruned) == Len(pruned) < max_calls

\* the value is_allowed(id) returns at time t, _calls being c
is_allowed(c, id, t) == Admits(Prune(CallsOf(c, id), t))

\* mutant of CallsAfter: the admitted call is appended to the unpruned list
CallsAfterNoPrune(c, id, t) ==
    LET list == IF Admits(Prune(CallsOf(c, id), t)) THEN Append(CallsOf(c, id), t)
                ELSE CallsOf(c, id)
    IN [x \in (DOMAIN c) \cup {id} |-> IF x = id THEN list ELSE c[x]]

\* mutant of CallsAfter: a denied call is recorded like an admitted one
CallsAfterAlwaysAppends(c, id, t) ==
    [x \in (DOMAIN c) \cup {id} |->
        IF x = id THEN Append(Prune(CallsOf(c, id), t), t) ELSE c[x]]

\* mutant of CallsAfter: an admitted call is not recorded
CallsAfterNotRecorded(c, id, t) ==
    [x \in (DOMAIN c) \cup {id} |-> IF x = id THEN Prune(CallsOf(c, id), t) ELSE c[x]]

\* utils.py 203-215: _calls after is_allowed(id) at time t, _calls being c before
CallsAfter(c, id, t) ==
    LET pruned == Prune(CallsOf(c, id), t)
        list == IF Admits(pruned) THEN Append(pruned, t) ELSE pruned
    IN [x \in (DOMAIN c) \cup {id} |-> IF x = id THEN list ELSE c[x]]

\* mutant of get_retry_after: the second added at 224 is left out
get_retry_after_truncated(c, id, t) ==
    IF id \notin DOMAIN c \/ c[id] = <<>>
    THEN 0
    ELSE LET oldest_call == Min(SeqRange(c[id]))
             retry_after == IntOfTicks(period_seconds * TicksPerSec - (t - oldest_call))
         IN Max2(0, retry_after)

\* utils.py 219-225: get_retry_after(id) at time t, _calls being c
get_retry_after(c, id, t) ==
    IF id \notin DOMAIN c \/ c[id] = <<>>
    THEN 0
    ELSE LET oldest_call == Min(SeqRange(c[id]))
             retry_after ==
                 IntOfTicks(period_seconds * TicksPerSec - (t - oldest_call)) + 1
         IN Max2(0, retry_after)

\* ------------------------------------------------------------ SimpleCache
CacheKeys == {"test_key", "key1"}
CacheValues == {"value1", "value2"}

\* utils.py 125-127: hashlib.md5(key.encode()).hexdigest(), on the keys used
get_hash(key) ==
    CASE key = "test_key" -> "8c32d1183251df9828f929b935ae0419"
      [] key = "key1" -> "c2add694bf942dc77b376592d9c862cd"
      [] key = "key2" -> "78f825aaa0103319aaa1a30bf4fe3ada"
      [] key = "https://example.com_balanced_100" -> "6201aabb634a33ed88bff1cb828e8e09"
      [] key = "https://example.com_balanced_300" -> "fd93d1c33cae6dbb229fe28b3807dab7"
      [] key = "https://example.com_bullet_points_100" -> "d27fcddcd344e44fb4dad724343eb943"
      [] key = "https://example.com_bullet_points_300" -> "2259a0552fe86676c7a6b44b65872e0d"
      [] key = "https://youtu.be/123_balanced_100" -> "f8951f36f9c01ef9b8f4ebd42f5e7cc2"
      [] key = "https://youtu.be/123_balanced_300" -> "51807a6940bce7387433e3facacab3f1"
      [] key = "https://youtu.be/123_bullet_points_100" -> "0a1b69b5eb825db955c1f21b7e391197"
      [] key = "https://youtu.be/123_bullet_points_300" -> "be64d6d84a69965fa5af23d1da71cbb1"

\* mutant of CacheAfterSet: the value is not stored
CacheAfterSetDropped(c, key, value, t) == c

\* mutant of CacheAfterSet: an entry already there keeps its timestamp
CacheAfterSetKeepsTimestamp(c, key, value, t) ==
    [h \in (DOMAIN c) \cup {get_hash(key)} |->
        IF h = get_hash(key)
        THEN [value |-> value,
              timestamp |-> IF h \in DOMAIN c THEN c[h].timestamp ELSE t]
        ELSE c[h]]

\* utils.py 137-141: _cache after set(key, value) at time t, _cache being c
CacheAfterSet(c, key, value, t) ==
    [h \in (DOMAIN c) \cup {get_hash(key)} |->
        IF h = get_hash(key) THEN [value |-> value, timestamp |-> t] ELSE c[h]]

\* mutant of Expired: the age is measured in whole seconds
ExpiredByWholeSeconds(cached, t) == IntOfTicks(t - cached.timestamp) > ttl_seconds

\* mutant of Expired: an entry aged exactly ttl_seconds already expires
ExpiredAtTtl(cached, t) == t - cached.timestamp >= ttl_seconds * TicksPerSec

\* utils.py 159: the expiry test of get
Expired(cached, t) == t - cached.timestamp > ttl_seconds * TicksPerSec

\* utils.py 154-165: the value get(key) returns at time t, _cache being c
cache_get(c, key, t) ==
    IF get_hash(key) \notin DOMAIN c THEN None
    ELSE IF Expired(c[get_hash(key)], t) THEN None
    ELSE c[get_hash(key)].value

\* mutant of CacheAfterGet: every expired entry is swept, whatever the key
CacheAfterGetSweeping(c, key, t) ==
    [h \in {x \in DOMAIN c : ~Expired(c[x], t)} |-> c[h]]

\* utils.py 154-162: _cache after get(key) at time t (an expired entry is deleted)
CacheAfterGet(c, key, t) ==
    IF get_hash(key) \in DOMAIN c /\ Expired(c[get_hash(key)], t)
    THEN [h \in (DOMAIN c) \ {get_hash(key)} |-> c[h]]
    ELSE c

\* utils.py 172-174
get_size(c) == Cardinality(DOMAIN c)

\* ------------------------------------------------------------- validators
Urls == {"", "   ", "not a url", "youtube.com/watch",
         "https://example.com", "https://youtu.be/123"}
ApiKeys == {"", "   ", "short", "bad key!!!!",
            "valid_groq_key_12345", "abcd1234-efgh-5678-ijkl"}
Styles == {"balanced", "bullet_points"}
Lengths == {100, 300}

\* `not s.strip()`: the string is empty or whitespace only
IsBlank(s) == Strip(s) = ""

\* what get_url_type is asked about besides Urls: None, the URLs of
\* test_app.py, a YouTube host the pattern does not name, a host that only
\* ends like one, a YouTube URL without scheme, one with a leading blank and
\* one without a path
UrlInputs ==
    Urls \cup {None, "invalid", "https://www.youtube.com/watch?v=123",
               "https://en.wikipedia.org", "https://m.youtube.com/watch?v=123",
               "http://youtu.be/abc", "https://notyoutube.com/",
               "www.youtube.com/watch?v=123", " https://youtu.be/123",
               "https://youtube.com"}

\* validators.url(url) is True, on the URLs used: a scheme and a host are
\* needed, and no blank
validators_url(url) ==
    url \in {"https://example.com", "https://youtu.be/123",
             "https://www.youtube.com/watch?v=123", "https://en.wikipedia.org",
             "https://m.youtube.com/watch?v=123", "http://youtu.be/abc",
             "https://notyoutube.com/", "https://youtube.com"}

\* utils.py 29-42
is_valid_url(url) == IF url = None \/ url = "" THEN FALSE ELSE validators_url(url)

\* re.match(YOUTUBE_REGEX, url.strip()): an optional scheme, an optional
\* "www.", then one of the two hosts and a slash, from the start of the string
youtube_regex_matches(url) ==
    LET s == Strip(url)
        s1 == IF StartsWith(s, "https://") THEN DropPrefix(s, 8)
              ELSE IF StartsWith(s, "http://") THEN DropPrefix(s, 7)
              ELSE s
        s2 == IF StartsWith(s1, "www.") THEN DropPrefix(s1, 4) ELSE s1
    IN StartsWith(s2, "youtube.com/") \/ StartsWith(s2, "youtu.be/")

\* mutant of is_youtube_url: the pattern is tried on URLs that are not valid
is_youtube_url_unchecked(url) == url # None /\ youtube_regex_matches(url)

\* utils.py 44-57
is_youtube_url(url) == IF ~is_valid_url(url) THEN FALSE ELSE youtube_regex_matches(url)

\* utils.py 59-72
is_website_url(url) == IF ~is_valid_url(url) THEN FALSE ELSE ~is_youtube_url(url)

\* utils.py 74-89
get_url_type(url) ==
    IF is_youtube_url(url) THEN "youtube"
    ELSE IF is_website_url(url) THEN "website"
    ELSE None

\* api_key.replace("-", "").replace("_", "").isalnum()
IsAlnumWithoutDashes(api_key) == isalnum(Remove(Remove(api_key, "-"), "_"))

\* mutant of validate_groq_key: a key of exactly ten characters is too short
validate_groq_key_longer(api_key) ==
    IF api_key = None \/ api_key = "" THEN FALSE
    ELSE Len(api_key) > 10 /\ IsAlnumWithoutDashes(api_key)

\* utils.py 95-109
validate_groq_key(api_key) ==
    IF api_key = None \/ api_key = "" THEN FALSE
    ELSE Len(api_key) >= 10 /\ IsAlnumWithoutDashes(api_key)

\* mutant of validate_inputs: the format of the API key is not checked
validate_inputs_no_key_format(api_key, url) ==
    IF IsBlank(api_key) THEN "api_key_required"
    ELSE IF IsBlank(url) THEN "url_required"
    ELSE IF ~is_valid_url(url) THEN "url_invalid"
    ELSE IF get_url_type(url) = None THEN "url_unsupported"
    ELSE "ok"

\* app.py 258-287: the message validate_inputs returns, "ok" for (True, None)
validate_inputs(api_key, url) ==
    IF IsBlank(api_key) THEN "api_key_required"
    ELSE IF ~validate_groq_key(api_key) THEN "api_key_format"
    ELSE IF IsBlank(url) THEN "url_required"
    ELSE IF ~is_valid_url(url) THEN "url_invalid"
    ELSE IF get_url_type(url) = None THEN "url_unsupported"
    ELSE "ok"

\* api/summarize.py 73-87: the detail of the 400 raised, "ok" when none is
rest_validate(api_key, url) ==
    IF IsBlank(url) THEN "URL is required"
    ELSE IF IsBlank(api_key) THEN "API key is required"
    ELSE IF ~is_valid_url(url) THEN "Invalid URL format"
    ELSE IF ~validate_groq_key(api_key) THEN "Invalid API key format"
    ELSE IF get_url_type(url) = None THEN "Unsupported URL type"
    ELSE "ok"

\* the validators on the keys and URLs the requests use, evaluated once:
\* app.py 345, api/summarize.py 72-87, and the classification of app.py 389
\* and api/summarize.py 85
ValidationOf == [k \in ApiKeys |-> [u \in Urls |-> validate_inputs(k, u)]]

RestValidationOf == [k \in ApiKeys |-> [u \in Urls |-> rest_validate(k, u)]]

UrlTypeOf == [u \in Urls |-> get_url_type(u)]

\* --------------------------------------------------------------- services
\* what the third-party stages of the YouTube path do: yt_dlp raises, no mp3
\* is produced, whisper raises, the transcript is empty, or all succeed
YtOutcomes == {"ok", "download_raises", "no_audio_file", "whisper_raises",
               "empty_transcript"}

\* what WebBaseLoader does: raises, returns no document, returns a blank
\* first document, or returns content
WebOutcomes == {"ok", "loader_raises", "no_docs", "empty_content"}

\* str(e) of the exception a third-party stage raises
ForeignMessage(stage) ==
    CASE stage = "download_raises" -> "ERROR: Video unavailable"
      [] stage = "whisper_raises" -> "CUDA out of memory"
      [] stage = "loader_raises" -> "Connection refused"
      [] stage = "llm_init_raises" -> "Invalid API Key"
      [] stage = "chain_raises" -> "Rate limit reached"
      [] stage = "prompt_raises" -> "'style'"

\* exceptions.py 11-25: an AppException raised; original_error is
\* details["original_error"], None when the details are {}
Raised(code, message, original_error) ==
    [ok |-> FALSE, error_code |-> code, message |-> message,
     wrapped |-> original_error # None, original_error |-> original_error,
     value |-> None]

Returned(value) == [ok |-> TRUE, error_code |-> "none", message |-> None,
                    wrapped |-> FALSE, original_error |-> None, value |-> value]

\* exceptions.py 45-82
GroqAPIException(message, original_error) ==
    Raised("GROQ_API_ERROR", message, original_error)

YouTubeProcessingException(message, original_error) ==
    Raised("YOUTUBE_ERROR", message, original_error)

WebsiteProcessingException(message, original_error) ==
    Raised("WEBSITE_ERROR", message, original_error)

TranscriptionException(message, original_error) ==
    Raised("TRANSCRIPTION_ERROR", message, original_error)

SummarizationException(message, original_error) ==
    Raised("SUMMARIZATION_ERROR", message, original_error)

\* the temporary directory of one call and the files yt_dlp writes into it
TmpDir == "tmpdir"
AudioFile == "tmpdir/temp_audio.mp3"
SourceFile == "tmpdir/temp_audio.m4a"

\* services.py 74-76: what is in the directory once extract_info has returned
\* or raised: the mp3, or only the downloaded source when no mp3 was produced
Downloaded(o) ==
    IF o \in {"download_raises", "no_audio_file"} THEN {TmpDir, SourceFile}
    ELSE {TmpDir, AudioFile}

\* mutant of TemporaryDirectoryExit: the directory is removed on return only
TemporaryDirectoryExitOnReturn(fs, res) ==
    IF res.ok THEN {path \in fs : ~StartsWith(path, TmpDir)} ELSE fs

\* services.py 69: leaving the with block, by return or by raise, removes the
\* directory and all it holds
TemporaryDirectoryExit(fs, res) == {path \in fs : ~StartsWith(path, TmpDir)}

\* services.py 51-113: the result, the files created and the files left
download_and_transcribe(o) ==
    LET m == ForeignMessage(o)
        res ==
            CASE o = "download_raises" ->
                     YouTubeProcessingException("Failed to process YouTube video: " \o m, m)
              [] o = "no_audio_file" ->
                     YouTubeProcessingException("Audio file not found after download.", None)
              [] o = "whisper_raises" ->
                     YouTubeProcessingException("Failed to process YouTube video: " \o m, m)
              [] o = "empty_transcript" ->
                     TranscriptionException("Transcription resulted in empty text.", None)
              [] o = "ok" -> Returned("transcript")
    IN [res |-> res, created |-> Downloaded(o),
        left |-> TemporaryDirectoryExit(Downloaded(o), res)]

\* config.py 36
MAX_WEBSITE_CONTENT_LENGTH == 4000

\* mutant of Truncate: the cut keeps one character too many
TruncateOneMore(page_content) ==
    IF Len(page_content) > MAX_WEBSITE_CONTENT_LENGTH
    THEN SubSeq(page_content, 1, MAX_WEBSITE_CONTENT_LENGTH + 1)
    ELSE page_content

\* services.py 151-154
Truncate(page_content) ==
    IF Len(page_content) > MAX_WEBSITE_CONTENT_LENGTH
    THEN SubSeq(page_content, 1, MAX_WEBSITE_CONTENT_LENGTH)
    ELSE page_content

\* what WebBaseLoader(url).load() does: it raises, or returns the page
\* contents of its documents
Loaded(raises, docs) == [raises |-> raises, docs |-> docs]

\* the loader's part in the outcomes of the website path
WebLoaded(o) ==
    CASE o = "loader_raises" -> Loaded(TRUE, <<>>)
      [] o = "no_docs" -> Loaded(FALSE, <<>>)
      [] o = "empty_content" -> Loaded(FALSE, <<"   ">>)
      [] o = "ok" -> Loaded(FALSE, <<"Example Domain">>)

\* services.py 133-169
load_and_extract(loaded) ==
    LET m == ForeignMessage("loader_raises")
    IN IF loaded.raises
       THEN WebsiteProcessingException("Failed to load website content: " \o m, m)
       ELSE IF loaded.docs = <<>>
       THEN WebsiteProcessingException("No content found on the website.", None)
       ELSE IF Strip(loaded.docs[1]) = ""
       THEN WebsiteProcessingException("Website content is empty or not readable.", None)
       ELSE Returned([i \in 1..Len(loaded.docs) |-> Truncate(loaded.docs[i])])

\* no SummarizationService held (None)
NoService == [api_key |-> None, llm |-> "none"]

\* services.py 175-183
SummarizationService(api_key) == [api_key |-> api_key, llm |-> "none"]

\* what ChatGroq(...) does when constructed
LlmInits == {"ok", "raises"}

\* what chain.run(docs) does: it returns a text or raises
ChainRaises == "<raises>"
ChainOutputs == {"summary one", " summary two ", "   ", ChainRaises}

\* services.py 185-201: get_llm; the client is built once and kept in _llm
get_llm(service, llm_init) ==
    IF service.llm # "none" THEN [ok |-> TRUE, service |-> service, error |-> None]
    ELSE IF llm_init = "raises"
    THEN [ok |-> FALSE, service |-> service,
          error |-> GroqAPIException("Failed to initialize summarization service",
                                     ForeignMessage("llm_init_raises"))]
    ELSE [ok |-> TRUE, service |-> [service EXCEPT !.llm = service.api_key],
          error |-> None]

\* config.py 32
SUMMARY_STYLES == {"balanced", "bullet_points", "executive", "technical", "simplified"}

\* a lookup that raised KeyError
PromptRaises == "<KeyError>"

\* services.py 216-237: the dict of the five templates, for this length
prompts(style, length) ==
    CASE style = "balanced" ->
             "Provide a balanced summary of the following content in approximately "
             \o ToString(length) \o " words. \n"
             \o "Cover the main points clearly and concisely:\nContent:{text}\nSummary:"
      [] style = "bullet_points" ->
             "Summarize the following content as concise bullet points (5-8 points). \n"
             \o "Focus on key takeaways:\nContent:{text}\nSummary:"
      [] style = "executive" ->
             "Create an executive summary of the following content in "
             \o ToString(length) \o " words. \n"
             \o "Include key findings and recommendations:\nContent:{text}\nSummary:"
      [] style = "technical" ->
             "Provide a technical summary of the following content in "
             \o ToString(length) \o " words. \n"
             \o "Focus on technical details and specifications:\nContent:{text}\nSummary:"
      [] style = "simplified" ->
             "Explain the following content in simple terms ("
             \o ToString(length) \o " words). \n"
             \o "Make it understandable to non-experts:\nContent:{text}\nSummary:"

\* mutant of get_summary_prompt: prompts[style], a KeyError on an unknown style
get_summary_prompt_strict(style, length) ==
    IF style \in SUMMARY_STYLES THEN prompts(style, length) ELSE PromptRaises

\* services.py 239-240: prompts.get(style, prompts["balanced"])
get_summary_prompt(style, length) ==
    IF style \in SUMMARY_STYLES THEN prompts(style, length)
    ELSE prompts("balanced", length)

\* mutant of summarize: the output of the chain is returned without the test
\* for an empty one
summarize_unchecked(service, docs, style, length, llm_init, chain) ==
    LET g == get_llm(service, llm_init)
        prompt == get_summary_prompt(style, length)
    IN IF docs # <<>> /\ g.ok /\ prompt # PromptRaises /\ chain # ChainRaises
       THEN [res |-> Returned(Strip(chain)), service |-> g.service, prompt |-> prompt]
       ELSE [res |-> SummarizationException("Failed to summarize content", None),
             service |-> g.service, prompt |-> None]

\* services.py 262-289: summarize; the result, the service object afterwards
\* and the prompt the chain was given
summarize(service, docs, style, length, llm_init, chain) ==
    LET g == get_llm(service, llm_init)
        prompt == get_summary_prompt(style, length)
    IN IF docs = <<>>
       THEN [res |-> SummarizationException("No documents provided for summarization",
                                            None),
             service |-> service, prompt |-> None]
       ELSE IF ~g.ok
       THEN \* the GroqAPIException is caught by `except Exception` at 284
            [res |-> SummarizationException(
                         "Failed to summarize content: " \o g.error.message,
                         g.error.message),
             service |-> g.service, prompt |-> None]
       ELSE IF prompt = PromptRaises
       THEN [res |-> SummarizationException(
                         "Failed to summarize content: " \o ForeignMessage("prompt_raises"),
                         ForeignMessage("prompt_raises")),
             service |-> g.service, prompt |-> None]
       ELSE IF chain = ChainRaises
       THEN [res |-> SummarizationException(
                         "Failed to summarize content: " \o ForeignMessage("chain_raises"),
                         ForeignMessage("chain_raises")),
             service |-> g.service, prompt |-> prompt]
       ELSE IF chain = "" \/ Strip(chain) = ""
       THEN [res |-> SummarizationException("Summarization resulted in empty output",
                                            None),
             service |-> g.service, prompt |-> prompt]
       ELSE [res |-> Returned(Strip(chain)), service |-> g.service, prompt |-> prompt]

\* mutant of AcquireStage: every URL is taken for a YouTube one
AcquireStageAlwaysYouTube(url_type) == "download_and_transcribe"

\* the acquisition strategy run for a URL of the given type (app.py 392-400,
\* api/summarize.py 95-105): the YouTube path for "youtube", else the website path
AcquireStage(url_type) ==
    IF url_type = "youtube" THEN "download_and_transcribe" ELSE "load_and_extract"

Acquire(url_type, o) ==
    IF url_type = "youtube" THEN download_and_transcribe(o).res
    ELSE load_and_extract(WebLoaded(o))

\* the documents handed to summarize: the transcript wrapped in one Document
\* (app.py 397, api/summarize.py 102) or the documents of the website
Docs(url_type, acq) == IF url_type = "youtube" THEN <<acq.value>> ELSE acq.value

AcqOutcomes(url_type) == IF url_type = "youtube" THEN YtOutcomes ELSE WebOutcomes

\* ------------------------------------------------------- app.py main (UI)
\* app.py 365
cache_key(url, style, length) == url \o "_" \o style \o "_" \o ToString(length)

\* `if cached_result:` (app.py 374)
Truthy(value) == value # None /\ value # ""

\* mutant of RateCheckEnabled: the limiter is consulted whatever the flag says
RateCheckAlways == TRUE

\* app.py 352
RateCheckEnabled == enable_rate_limiting

\* mutant of EngineFor: the held engine is given the new credential
EngineForRekeyed(held, api_key) ==
    IF held = NoService THEN SummarizationService(api_key)
    ELSE [held EXCEPT !.api_key = api_key]

\* app.py 378-388: the engine of this run; a new one is constructed when none
\* is held or the held one was constructed with another credential
EngineFor(held, api_key) ==
    IF held = NoService \/ held.api_key # api_key
    THEN SummarizationService(api_key)
    ELSE held

\* a local variable of main that no statement has assigned
Unbound == "<unbound>"

NoRequest == [n |-> 0, url |-> None, api_key |-> None, style |-> None, length |-> 0,
              trace |-> <<>>, outcome |-> "none", error |-> "none", retry_after |-> 0,
              summary |-> None, hit |-> FALSE, t_end |-> 0]

\* the environment's part in one run of main: the time spent before
\* get_retry_after reads the clock, what acquisition and the LLM do, and the
\* time acquisition and summarization take
NoEnv == [dr |-> 0, acq |-> "ok", llm_init |-> "ok", chain |-> "summary one", d |-> 0]

\* app.py 345-481: one click on Summarize, from validation to the end of the run
MainResult(url, api_key, style, length, e) ==
    LET msg == ValidationOf[api_key][url]
        checked == RateCheckEnabled
        allowed == is_allowed(calls, "default", now)
        calls1 == IF checked THEN CallsAfter(calls, "default", now) ELSE calls
        pre == IF checked THEN <<"validate_inputs", "is_allowed">>
               ELSE <<"validate_inputs">>
        key == cache_key(url, style, length)
        cached_result == cache_get(cache, key, now)
        cache1 == CacheAfterGet(cache, key, now)
        service1 == EngineFor(summarization_service, api_key)
        url_type == UrlTypeOf[url]
        acq == Acquire(url_type, e.acq)
        sum == summarize(service1, Docs(url_type, acq), style, length, e.llm_init, e.chain)
        req == [NoRequest EXCEPT !.n = ui.n + 1, !.url = url, !.api_key = api_key,
                                 !.style = style, !.length = length]
        same == [calls |-> calls, cache |-> cache, service |-> summarization_service,
                 history |-> history, now |-> now, ui |-> req]
    IN IF msg # "ok"
       THEN \* app.py 346-349: st.error, st.stop
            [same EXCEPT !.ui = [req EXCEPT !.trace = <<"validate_inputs">>,
                                            !.outcome = "errored",
                                            !.error = "validation:" \o msg,
                                            !.t_end = now]]
       ELSE IF checked /\ ~allowed
       THEN \* app.py 354-359
            [same EXCEPT !.calls = calls1, !.now = now + e.dr,
                         !.ui = [req EXCEPT !.trace = pre \o <<"get_retry_after">>,
                                            !.outcome = "errored",
                                            !.error = "rate_limit",
                                            !.retry_after =
                                                get_retry_after(calls1, "default",
                                                                now + e.dr),
                                            !.t_end = now + e.dr]]
       ELSE IF Truthy(cached_result)
       THEN \* app.py 374-376, 414-429: the summary is shown, then
            \* url_type.capitalize() reads a local that only the else branch
            \* assigns: UnboundLocalError, caught at 477
            [same EXCEPT !.calls = calls1, !.cache = cache1,
                         !.ui = [req EXCEPT !.trace = pre \o <<"cache.get", "display">>,
                                            !.outcome = "errored",
                                            !.error = "unexpected:UnboundLocalError",
                                            !.summary = cached_result,
                                            !.hit = TRUE,
                                            !.t_end = now]]
       ELSE IF ~acq.ok
       THEN \* app.py 378-400, 474-476
            [same EXCEPT !.calls = calls1, !.cache = cache1, !.service = service1,
                         !.now = now + e.d,
                         !.ui = [req EXCEPT !.trace = pre \o <<"cache.get", "get_url_type",
                                                              AcquireStage(url_type)>>,
                                            !.outcome = "errored",
                                            !.error = acq.error_code,
                                            !.t_end = now + e.d]]
       ELSE IF ~sum.res.ok
       THEN \* app.py 402-408, 474-476
            [same EXCEPT !.calls = calls1, !.cache = cache1, !.service = sum.service,
                         !.now = now + e.d,
                         !.ui = [req EXCEPT !.trace = pre \o <<"cache.get", "get_url_type",
                                                              AcquireStage(url_type),
                                                              "summarize">>,
                                            !.outcome = "errored",
                                            !.error = sum.res.error_code,
                                            !.t_end = now + e.d]]
       ELSE \* app.py 410-439
            [same EXCEPT !.calls = calls1,
                         !.cache = CacheAfterSet(cache1, key, sum.res.value, now + e.d),
                         !.service = sum.service,
                         !.history = Append(history, [url |-> url,
                                                      summary |-> sum.res.value,
                                                      style |-> style,
                                                      url_type |-> url_type]),
                         !.now = now + e.d,
                         !.ui = [req EXCEPT !.trace = pre \o <<"cache.get", "get_url_type",
                                                              AcquireStage(url_type),
                                                              "summarize", "cache.set",
                                                              "display", "add_to_history">>,
                                            !.outcome = "done",
                                            !.summary = sum.res.value,
                                            !.t_end = now + e.d]]

\* what can happen once acquisition starts: it fails, or the LLM client cannot
\* be built, or the chain runs (whatever it returns or raises)
FreshEnvs(url_type) ==
    {[NoEnv EXCEPT !.acq = a, !.d = d] :
        a \in AcqOutcomes(url_type) \ {"ok"}, d \in Delays}
    \cup {[NoEnv EXCEPT !.llm_init = "raises", !.d = d] : d \in Delays}
    \cup {[NoEnv EXCEPT !.chain = c, !.d = d] : c \in ChainOutputs, d \in Delays}

\* the environments that make a difference to this run of main
MainEnvs(url, api_key, style, length) ==
    IF ValidationOf[api_key][url] # "ok" THEN {NoEnv}
    ELSE IF RateCheckEnabled /\ ~is_allowed(calls, "default", now)
    THEN {[NoEnv EXCEPT !.dr = dr] : dr \in Delays}
    ELSE IF Truthy(cache_get(cache, cache_key(url, style, length), now)) THEN {NoEnv}
    ELSE FreshEnvs(UrlTypeOf[url])

\* the requests made of the UI: the base request and those differing from it
\* in one field
BaseRequest == [url |-> "https://example.com", api_key |-> "valid_groq_key_12345",
                style |-> "balanced", length |-> 300]

UiRequests ==
    {[BaseRequest EXCEPT !.url = u] : u \in Urls}
    \cup {[BaseRequest EXCEPT !.api_key = k] : k \in ApiKeys}
    \cup {[BaseRequest EXCEPT !.style = s] : s \in Styles}
    \cup {[BaseRequest EXCEPT !.length = l] : l \in Lengths}

\* ------------------------------------- api/summarize.py summarize (REST)
\* mutant of StatusOf: the generic except clause comes before the AppException one
StatusOfGenericFirst(raised) ==
    CASE raised = "none" -> 200
      [] raised = "HTTPException" -> 400
      [] OTHER -> 500

\* the status the handler's except clauses give what was raised in the try
\* (api/summarize.py 129-136)
StatusOf(raised) ==
    CASE raised = "none" -> 200
      [] raised = "HTTPException" -> 400
      [] raised \in {"YOUTUBE_ERROR", "TRANSCRIPTION_ERROR", "WEBSITE_ERROR",
                     "SUMMARIZATION_ERROR", "API_ERROR", "GROQ_API_ERROR"} -> 422
      [] OTHER -> 500

NoResponse == [url |-> None, api_key |-> None, style |-> None, length |-> 0,
               trace |-> <<>>, raised |-> "none", status_code |-> 0, detail |-> None,
               summary |-> None, url_type |-> None, word_count |-> 0,
               reading_time |-> 0, status |-> None]

\* summaries of 50, 200 and 400 words, as the chain may return them
LongSummaries == {Words(n, " ") : n \in {50, 200, 400}}

\* the environment's part in one POST /summarize: what acquisition and the LLM
\* do, and whether a statement of the handler itself (116-127) raises an
\* exception that is no AppException (MemoryError)
RestEnvs(url_type) ==
    {[acq |-> a, llm_init |-> "ok", chain |-> "summary one", other |-> FALSE] :
        a \in AcqOutcomes(url_type) \ {"ok"}}
    \cup {[acq |-> "ok", llm_init |-> "raises", chain |-> "summary one",
           other |-> FALSE]}
    \cup {[acq |-> "ok", llm_init |-> "ok", chain |-> c, other |-> o] :
             c \in ChainOutputs \cup LongSummaries, o \in BOOLEAN}

\* the environments that make a difference to this request
RestEnvsFor(url, api_key) ==
    IF RestValidationOf[api_key][url] # "ok"
    THEN {[acq |-> "ok", llm_init |-> "ok", chain |-> "summary one", other |-> FALSE]}
    ELSE RestEnvs(UrlTypeOf[url])

\* api/summarize.py 60-136: the response to one POST /summarize
RestResult(url, api_key, style, length, e) ==
    LET detail == RestValidationOf[api_key][url]
        url_type == UrlTypeOf[url]
        service == SummarizationService(api_key)
        acq == Acquire(url_type, e.acq)
        sum == summarize(service, Docs(url_type, acq), style, length, e.llm_init, e.chain)
        word_count == split_count(sum.res.value)
        reading_time == Max2(1, word_count \div 200)
        req == [NoResponse EXCEPT !.url = url, !.api_key = api_key, !.style = style,
                                  !.length = length]
    IN IF detail # "ok"
       THEN [req EXCEPT !.trace = <<"validate">>, !.raised = "HTTPException",
                        !.status_code = StatusOf("HTTPException"), !.detail = detail]
       ELSE IF ~acq.ok
       THEN [req EXCEPT !.trace = <<"validate", "get_url_type", AcquireStage(url_type)>>,
                        !.raised = acq.error_code,
                        !.status_code = StatusOf(acq.error_code),
                        !.detail = acq.message]
       ELSE IF ~sum.res.ok
       THEN [req EXCEPT !.trace = <<"validate", "get_url_type", AcquireStage(url_type),
                                    "summarize">>,
                        !.raised = sum.res.error_code,
                        !.status_code = StatusOf(sum.res.error_code),
                        !.detail = sum.res.message]
       ELSE IF e.other
       THEN [req EXCEPT !.trace = <<"validate", "get_url_type", AcquireStage(url_type),
                                    "summarize">>,
                        !.raised = "MemoryError",
                        !.status_code = StatusOf("MemoryError"),
                        !.detail = "Internal server error"]
       ELSE [req EXCEPT !.trace = <<"validate", "get_url_type", AcquireStage(url_type),
                                    "summarize", "response">>,
                        !.raised = "none",
                        !.status_code = StatusOf("none"),
                        !.summary = sum.res.value,
                        !.url_type = url_type,
                        !.word_count = word_count,
                        !.reading_time = reading_time,
                        !.status = "success"]

\* ---------------------------------------------------------------- actions
Tick ==
    /\ now < MaxTime
    /\ now' = now + 1
    /\ UNCHANGED <<limiterVars, cacheVars, uiVars, rest, svc>>

IsAllowed(id) ==
    /\ Len(log) < MaxLog
    /\ calls' = CallsAfter(calls, id, now)
    /\ log' = Append(log, [id |-> id, t |-> now, ok |-> is_allowed(calls, id, now)])
    /\ last' = [op |-> "is_allowed", id |-> id,
                ret |-> IF is_allowed(calls, id, now) THEN 1 ELSE 0, t |-> now]
    /\ UNCHANGED <<now, max_calls, period_seconds, threads, cacheVars, uiVars, rest, svc>>

GetRetryAfter(id) ==
    /\ last' = [op |-> "get_retry_after", id |-> id,
                ret |-> get_retry_after(calls, id, now), t |-> now]
    /\ UNCHANGED <<now, max_calls, period_seconds, calls, log, threads, cacheVars,
                   uiVars, rest, svc>>

InitLimiter ==
    /\ now = 0
    /\ max_calls \in 0..MaxCalls
    /\ period_seconds \in 1..MaxPeriod
    /\ calls = <<>>
    /\ log = <<>>
    /\ last = NoOp
    /\ threads = NoThreads
    /\ ttl_seconds = 1
    /\ cache = <<>>
    /\ clog = <<>>
    /\ enable_rate_limiting = TRUE
    /\ summarization_service = NoService
    /\ history = <<>>
    /\ ui = NoRequest
    /\ rest = NoResponse
    /\ svc = NoCall

NextLimiter ==
    \/ Tick
    \/ \E id \in Identifiers : IsAllowed(id)
    \/ \E id \in Identifiers : GetRetryAfter(id)

SpecLimiter == InitLimiter /\ [][NextLimiter]_vars

\* ------------------------------------- RateLimiter under concurrent calls
\* is_allowed("default") run by several threads, statement by statement: the
\* interpreter may switch threads between any two of them.
RaceId == "default"

\* the is_allowed calls started so far
Started == Len(log) + Cardinality({p \in Threads : threads[p].pc # "idle"})

\* utils.py 202: now = time.time()
RaceStart(p) ==
    /\ threads[p].pc = "idle"
    /\ Started < MaxRaceCalls
    /\ threads' = [threads EXCEPT ![p] = [Idle EXCEPT !.pc = "init", !.now = now]]
    /\ UNCHANGED <<now, max_calls, period_seconds, calls, log, last, cacheVars, uiVars,
                   rest, svc>>

\* utils.py 203-204: the list is created on first use
RaceInit(p) ==
    /\ threads[p].pc = "init"
    /\ calls' = [x \in (DOMAIN calls) \cup {RaceId} |-> CallsOf(calls, x)]
    /\ threads' = [threads EXCEPT ![p].pc = "prune_read"]
    /\ UNCHANGED <<now, max_calls, period_seconds, log, last, cacheVars, uiVars, rest,
                   svc>>

\* utils.py 208-211: the list comprehension is evaluated
RacePruneRead(p) ==
    /\ threads[p].pc = "prune_read"
    /\ threads' = [threads EXCEPT ![p].pc = "prune_write",
                                  ![p].filtered = Prune(calls[RaceId], threads[p].now)]
    /\ UNCHANGED <<now, max_calls, period_seconds, calls, log, last, cacheVars, uiVars,
                   rest, svc>>

\* utils.py 207: its value is stored in _calls[identifier]
RacePruneWrite(p) ==
    /\ threads[p].pc = "prune_write"
    /\ calls' = [calls EXCEPT ![RaceId] = threads[p].filtered]
    /\ threads' = [threads EXCEPT ![p].pc = "check"]
    /\ UNCHANGED <<now, max_calls, period_seconds, log, last, cacheVars, uiVars, rest,
                   svc>>

\* utils.py 213 and 217: the comparison; False is returned when it fails
RaceCheck(p) ==
    /\ threads[p].pc = "check"
    /\ IF Admits(calls[RaceId])
       THEN /\ threads' = [threads EXCEPT ![p].pc = "append",
                                          ![p].seen = Len(calls[RaceId])]
            /\ UNCHANGED log
       ELSE /\ threads' = [threads EXCEPT ![p] = Idle]
            /\ log' = Append(log, [id |-> RaceId, t |-> threads[p].now, ok |-> FALSE])
    /\ UNCHANGED <<now, max_calls, period_seconds, calls, last, cacheVars, uiVars, rest,
                   svc>>

\* utils.py 214-215: the timestamp is appended and True returned
RaceAppend(p) ==
    /\ threads[p].pc = "append"
    /\ calls' = [calls EXCEPT ![RaceId] = Append(@, threads[p].now)]
    /\ threads' = [threads EXCEPT ![p] = Idle]
    /\ log' = Append(log, [id |-> RaceId, t |-> threads[p].now, ok |-> TRUE])
    /\ UNCHANGED <<now, max_calls, period_seconds, last, cacheVars, uiVars, rest, svc>>

InitRace ==
    /\ now = 0
    /\ max_calls \in 0..MaxCalls
    /\ period_seconds = 1
    /\ calls = <<>>
    /\ log = <<>>
    /\ last = NoOp
    /\ threads = NoThreads
    /\ ttl_seconds = 1
    /\ cache = <<>>
    /\ clog = <<>>
    /\ enable_rate_limiting = TRUE
    /\ summarization_service = NoService
    /\ history = <<>>
    /\ ui = NoRequest
    /\ rest = NoResponse
    /\ svc = NoCall

NextRace ==
    \/ now < MaxRaceTime /\ Tick
    \/ \E p \in Threads :
           \/ RaceStart(p)
           \/ RaceInit(p)
           \/ RacePruneRead(p)
           \/ RacePruneWrite(p)
           \/ RaceCheck(p)
           \/ RaceAppend(p)

SpecRace == InitRace /\ [][NextRace]_vars

\* --------------------------------------------------- SimpleCache, directly
CacheSet(key, value) ==
    /\ Len(clog) < MaxOps
    /\ cache' = CacheAfterSet(cache, key, value, now)
    /\ clog' = Append(clog, [op |-> "set", key |-> key, value |-> value, t |-> now,
                             size |-> get_size(cache')])
    /\ UNCHANGED <<now, limiterVars, ttl_seconds, uiVars, rest, svc>>

CacheGet(key) ==
    /\ Len(clog) < MaxOps
    /\ cache' = CacheAfterGet(cache, key, now)
    /\ clog' = Append(clog, [op |-> "get", key |-> key, value |-> cache_get(cache, key, now),
                             t |-> now, size |-> get_size(cache')])
    /\ UNCHANGED <<now, limiterVars, ttl_seconds, uiVars, rest, svc>>

\* utils.py 167-170
CacheClear ==
    /\ Len(clog) < MaxOps
    /\ cache' = <<>>
    /\ clog' = Append(clog, [op |-> "clear", key |-> None, value |-> None, t |-> now,
                             size |-> 0])
    /\ UNCHANGED <<now, limiterVars, ttl_seconds, uiVars, rest, svc>>

InitCache ==
    /\ now = 0
    /\ max_calls = 1
    /\ period_seconds = 1
    /\ calls = <<>>
    /\ log = <<>>
    /\ last = NoOp
    /\ threads = NoThreads
    /\ ttl_seconds \in 0..MaxTtl
    /\ cache = <<>>
    /\ clog = <<>>
    /\ enable_rate_limiting = TRUE
    /\ summarization_service = NoService
    /\ history = <<>>
    /\ ui = NoRequest
    /\ rest = NoResponse
    /\ svc = NoCall

NextCache ==
    \/ Tick
    \/ \E key \in CacheKeys, value \in CacheValues : CacheSet(key, value)
    \/ \E key \in CacheKeys : CacheGet(key)
    \/ CacheClear

SpecCache == InitCache /\ [][NextCache]_vars

\* ------------------------------------------------------------ the UI run
Main(url, api_key, style, length) ==
    /\ ui.n < MaxRequests
    /\ \E e \in MainEnvs(url, api_key, style, length) :
           \E r \in {MainResult(url, api_key, style, length, e)} :
              /\ r.now <= MaxUiTime
              /\ now' = r.now
              /\ calls' = r.calls
              /\ cache' = r.cache
              /\ summarization_service' = r.service
              /\ history' = r.history
              /\ ui' = r.ui
    /\ UNCHANGED <<max_calls, period_seconds, log, last, threads, ttl_seconds, clog,
                   enable_rate_limiting, rest, svc>>

\* app.py 37-46 and config.py 42-48: the session state of a new session
Init ==
    /\ now = 0
    /\ max_calls = 1
    /\ period_seconds = 1
    /\ calls = <<>>
    /\ log = <<>>
    /\ last = NoOp
    /\ threads = NoThreads
    /\ ttl_seconds = 1
    /\ cache = <<>>
    /\ clog = <<>>
    /\ enable_rate_limiting \in BOOLEAN
    /\ summarization_service = NoService
    /\ history = <<>>
    /\ ui = NoRequest
    /\ rest = NoResponse
    /\ svc = NoCall

Next ==
    \/ now < MaxUiTime /\ Tick
    \/ \E q \in UiRequests : Main(q.url, q.api_key, q.style, q.length)

Spec == Init /\ [][Next]_vars

\* ------------------------------------------------------ POST /summarize
\* The handler keeps nothing between requests: a behaviour is one request.
RestSummarize(url, api_key, style, length) ==
    /\ rest = NoResponse
    /\ \E e \in RestEnvsFor(url, api_key) :
           rest' = RestResult(url, api_key, style, length, e)
    /\ UNCHANGED <<now, limiterVars, cacheVars, uiVars, svc>>

InitRest ==
    /\ now = 0
    /\ max_calls = 1
    /\ period_seconds = 1
    /\ calls = <<>>
    /\ log = <<>>
    /\ last = NoOp
    /\ threads = NoThreads
    /\ ttl_seconds = 1
    /\ cache = <<>>
    /\ clog = <<>>
    /\ enable_rate_limiting = TRUE
    /\ summarization_service = NoService
    /\ history = <<>>
    /\ ui = NoRequest
    /\ rest = NoResponse
    /\ svc = NoCall

NextRest ==
    \E url \in Urls, api_key \in ApiKeys, style \in Styles, length \in Lengths :
        RestSummarize(url, api_key, style, length)

SpecRest == InitRest /\ [][NextRest]_vars

\* ------------------------------------------- the reading time, both ways
\* the numbers of words of the texts whose reading time is estimated
WordCounts == {0, 1, 50, 199, 200, 201, 399} \cup (400..(400 + MaxOver))

EstimateReadingTime(n, sep, pad) ==
    /\ svc = NoCall
    /\ rest = NoResponse
    /\ LET text == pad \o Words(n, sep) \o pad
       IN svc' = [op |-> "estimate_reading_time", arg |-> [words |-> n, text |-> text],
                  out |-> estimate_reading_time(text, WORDS_PER_MINUTE)]
    /\ UNCHANGED <<now, limiterVars, cacheVars, uiVars, rest>>

\* utils.estimate_reading_time, which the UI shows (app.py 426), and the
\* reading_time of the REST response (api/summarize.py 116-117)
NextReadingTime ==
    \/ \E n \in WordCounts, sep \in {" ", "  \n"}, pad \in {"", " "} :
           EstimateReadingTime(n, sep, pad)
    \/ NextRest

SpecReadingTime == InitRest /\ [][NextReadingTime]_vars

\* ------------------------------------------ services and utilities, directly
\* The services and validators keep nothing between calls (summarize is given
\* a new SummarizationService): a behaviour is one call, on any input.
\* a page content of n characters, no two neighbours alike
Content(n) == SubSeq(Repeat("0123456789", n \div 10 + 1), 1, n)

\* the page contents a loader returns: blank, short, and around the maximum
PageContents ==
    {"", "   ", "Example Domain"}
    \cup {Content(n) : n \in (MAX_WEBSITE_CONTENT_LENGTH - 1)
                              ..(MAX_WEBSITE_CONTENT_LENGTH + MaxOver)}

LoaderResults ==
    {Loaded(TRUE, <<>>), Loaded(FALSE, <<>>)}
    \cup {Loaded(FALSE, <<c>>) : c \in PageContents}
    \cup {Loaded(FALSE, <<c1, c2>>) : c1 \in PageContents, c2 \in PageContents}

\* the styles asked of the summarizer: the five of config.py and two others
StyleInputs == SUMMARY_STYLES \cup {"haiku", ""}

DocsInputs == {<<>>, <<"Example Domain">>}

DownloadAndTranscribe(o) ==
    /\ svc = NoCall
    /\ svc' = [op |-> "download_and_transcribe", arg |-> o,
               out |-> download_and_transcribe(o)]
    /\ UNCHANGED <<now, limiterVars, cacheVars, uiVars, rest>>

LoadAndExtract(loaded) ==
    /\ svc = NoCall
    /\ svc' = [op |-> "load_and_extract", arg |-> loaded, out |-> load_and_extract(loaded)]
    /\ UNCHANGED <<now, limiterVars, cacheVars, uiVars, rest>>

Summarize(docs, style, length, llm_init, chain) ==
    /\ svc = NoCall
    /\ svc' = [op |-> "summarize",
               arg |-> [docs |-> docs, style |-> style, length |-> length,
                        llm_init |-> llm_init, chain |-> chain],
               out |-> summarize(SummarizationService("valid_groq_key_12345"), docs,
                                 style, length, llm_init, chain)]
    /\ UNCHANGED <<now, limiterVars, cacheVars, uiVars, rest>>

GetSummaryPrompt(style, length) ==
    /\ svc = NoCall
    /\ svc' = [op |-> "get_summary_prompt", arg |-> [style |-> style, length |-> length],
               out |-> get_summary_prompt(style, length)]
    /\ UNCHANGED <<now, limiterVars, cacheVars, uiVars, rest>>

GetUrlType(url) ==
    /\ svc = NoCall
    /\ svc' = [op |-> "get_url_type", arg |-> url, out |-> get_url_type(url)]
    /\ UNCHANGED <<now, limiterVars, cacheVars, uiVars, rest>>

\* the keys asked of the validator: None, those of the requests, and every
\* mix of a letter, a digit, "-", "_" and "!" of up to MaxKeyLen characters
\* (the order of the characters makes no difference to the validator)
KeyInputs ==
    ApiKeys \cup {None}
    \cup {Repeat("a", i) \o Repeat("7", j) \o Repeat("-", k) \o Repeat("_", l)
             \o Repeat("!", m) :
             <<i, j, k, l, m>> \in
                 {c \in (0..MaxKeyLen) \X (0..MaxKeyLen) \X (0..MaxKeyLen)
                         \X (0..MaxKeyLen) \X (0..1) :
                     c[1] + c[2] + c[3] + c[4] + c[5] <= MaxKeyLen}}

ValidateGroqKey(api_key) ==
    /\ svc = NoCall
    /\ svc' = [op |-> "validate_groq_key", arg |-> api_key,
               out |-> validate_groq_key(api_key)]
    /\ UNCHANGED <<now, limiterVars, cacheVars, uiVars, rest>>

InitServices ==
    /\ now = 0
    /\ max_calls = 1
    /\ period_seconds = 1
    /\ calls = <<>>
    /\ log = <<>>
    /\ last = NoOp
    /\ threads = NoThreads
    /\ ttl_seconds = 1
    /\ cache = <<>>
    /\ clog = <<>>
    /\ enable_rate_limiting = TRUE
    /\ summarization_service = NoService
    /\ history = <<>>
    /\ ui = NoRequest
    /\ rest = NoResponse
    /\ svc = NoCall

NextServices ==
    \/ \E o \in YtOutcomes : DownloadAndTranscribe(o)
    \/ \E loaded \in LoaderResults : LoadAndExtract(loaded)
    \/ \E docs \in DocsInputs, style \in StyleInputs, length \in Lengths,
          llm_init \in LlmInits, chain \in ChainOutputs :
           Summarize(docs, style, length, llm_init, chain)
    \/ \E style \in StyleInputs, length \in Lengths : GetSummaryPrompt(style, length)
    \/ \E url \in UrlInputs : GetUrlType(url)
    \/ \E api_key \in KeyInputs : ValidateGroqKey(api_key)

SpecServices == InitServices /\ [][NextServices]_vars

\* ================================================================ claims

LogOf(id) == SelectSeq(log, LAMBDA e : e.id = id)

Period == period_seconds * TicksPerSec

\* C1: with max_calls = N >= 1 and one identifier, the first N is_allowed calls
\* made less than period_seconds after the first are allowed, the (N+1)th call
\* in that span is denied, and the first call made more than period_seconds
\* after the first call is allowed again.
C1_WindowAdmitsExactlyN ==
    max_calls >= 1 =>
        \A id \in Identifiers :
            LET L == LogOf(id)
                within(k) == L[k].t - L[1].t < Period
            IN /\ \A k \in 1..Len(L) : (k <= max_calls /\ within(k)) => L[k].ok
               /\ (Len(L) > max_calls /\ within(max_calls + 1)) => ~L[max_calls + 1].ok
               /\ \A k \in 2..Len(L) :
                      (L[k].t - L[1].t > Period /\ within(k - 1)) => L[k].ok

C1_Witness ==
    \E id \in Identifiers :
        LET L == LogOf(id)
        IN /\ max_calls = 2
           /\ Len(L) = 4
           /\ L[1].ok /\ L[2].ok /\ ~L[3].ok /\ L[4].ok
           /\ L[3].t - L[1].t < Period
           /\ L[4].t - L[1].t > Period

\* C2: under sequential use at non-decreasing times no identifier ever has
\* more than max_calls timestamps recorded, and no more than max_calls of its
\* calls are admitted within any span shorter than period_seconds.
C2_AtMostMaxCallsPerWindow ==
    /\ \A id \in DOMAIN calls : Len(calls[id]) <= max_calls
    /\ \A id \in Identifiers :
           LET L == LogOf(id)
           IN \A i \in 1..Len(L) :
                  Cardinality({j \in i..Len(L) :
                                  L[j].ok /\ L[j].t - L[i].t < Period}) <= max_calls

C2_Witness ==
    \E id \in DOMAIN calls :
        /\ max_calls = 2
        /\ Len(calls[id]) = max_calls
        /\ last.op = "get_retry_after"
        /\ Len(LogOf(id)) = 4
        /\ Cardinality({j \in 1..4 : LogOf(id)[j].ok}) = 3

\* C9: when is_allowed has just denied a call for an identifier (max_calls >= 1),
\* get_retry_after for that identifier, read at the instant of the denial,
\* is strictly positive and at most period_seconds.
C9_RetryAfterWithinPeriod ==
    (/\ max_calls >= 1
     /\ last.op = "get_retry_after"
     /\ Len(log) > 0
     /\ log[Len(log)].id = last.id
     /\ ~log[Len(log)].ok
     /\ log[Len(log)].t = now)
    => (last.ret > 0 /\ last.ret <= period_seconds)

\* C3: set(k, v) followed by get(k) with no other set(k, .) or clear() between
\* returns v while the entry's age is within ttl_seconds, and returns None once
\* more than ttl_seconds have elapsed; the first such get removes the entry, so
\* get_size() is one less than before it.
C3_SetThenGet ==
    \A i \in 1..Len(clog) : \A j \in (i + 1)..Len(clog) :
        LET s == clog[i]
            g == clog[j]
            between == {clog[m] : m \in (i + 1)..(j - 1)}
            overwritten == \E b \in between :
                               \/ b.op = "clear"
                               \/ b.op = "set" /\ b.key = s.key
            removed == \E b \in between :
                           b.op = "get" /\ b.key = s.key /\ b.value = None
        IN (s.op = "set" /\ g.op = "get" /\ g.key = s.key /\ ~overwritten) =>
               IF g.t - s.t <= ttl_seconds * TicksPerSec
               THEN g.value = s.value /\ g.size = clog[j - 1].size
               ELSE /\ g.value = None
                    /\ ~removed => g.size = clog[j - 1].size - 1
                    /\ j = Len(clog) => get_hash(g.key) \notin DOMAIN cache

C3_Witness ==
    /\ Len(clog) = 3
    /\ ttl_seconds = 1
    /\ clog[1].op = "set" /\ clog[1].size = 1
    /\ clog[2].op = "get" /\ clog[2].key = clog[1].key /\ clog[2].value = clog[1].value
    /\ clog[2].t - clog[1].t = ttl_seconds * TicksPerSec /\ clog[2].size = 1
    /\ clog[3].op = "get" /\ clog[3].key = clog[1].key /\ clog[3].value = None
    /\ clog[3].size = 0

\* ------------------------------------------------------ pipeline claims
HasStage(trace, stage) == \E i \in 1..Len(trace) : trace[i] = stage

AcqStages == {"download_and_transcribe", "load_and_extract"}

Acquires(trace) == \E i \in 1..Len(trace) : trace[i] \in AcqStages

\* a request fails one of the validation checks
InvalidOf ==
    [k \in ApiKeys |-> [u \in Urls |->
        \/ IsBlank(u)
        \/ IsBlank(k)
        \/ ~is_valid_url(u)
        \/ ~validate_groq_key(k)
        \/ get_url_type(u) = None]]

Invalid(url, api_key) == InvalidOf[api_key][url]

ValidationErrors == {"validation:api_key_required", "validation:api_key_format",
                     "validation:url_required", "validation:url_invalid",
                     "validation:url_unsupported"}

\* the step is one run of main
UiStep == ui'.n = ui.n + 1

\* the limiter, as configured, would deny a call made now
DeniedNow == enable_rate_limiting /\ ~is_allowed(calls, "default", now)

\* the request of ui' has the cache key of the request of ui
SameKey == ui'.url = ui.url /\ ui'.style = ui.style /\ ui'.length = ui.length

\* the cache holds, for the key of the request of ui, an entry aged at most ttl
FreshInCache ==
    LET h == get_hash(cache_key(ui.url, ui.style, ui.length))
    IN /\ h \in DOMAIN cache
       /\ now - cache[h].timestamp <= ttl_seconds * TicksPerSec

\* C4: when a request succeeded and the same (url, style, length) is requested
\* again within the TTL (valid and admitted by the limiter), the second run hits
\* the cache and ends in Done with no error, showing the cached summary, with
\* neither acquisition nor summarization invoked.
C4_SecondRequestDoneFromCache ==
    [][(/\ UiStep
        /\ ui.outcome = "done"
        /\ SameKey
        /\ ~Invalid(ui'.url, ui'.api_key)
        /\ ~DeniedNow
        /\ FreshInCache)
       => (/\ ui'.hit
           /\ ui'.outcome = "done"
           /\ ui'.error = "none"
           /\ ui'.summary = ui.summary
           /\ ~Acquires(ui'.trace)
           /\ ~HasStage(ui'.trace, "summarize"))]_vars

\* C5: a request failing a validation check ends Errored with a validation
\* failure and enters no later stage: the limiter, the cache and the service
\* are left as they were and only validation has run.
C5_InvalidStopsAtValidation ==
    [][(UiStep /\ Invalid(ui'.url, ui'.api_key))
       => (/\ ui'.outcome = "errored"
           /\ ui'.error \in ValidationErrors
           /\ ui'.trace = <<"validate_inputs">>
           /\ calls' = calls
           /\ cache' = cache
           /\ summarization_service' = summarization_service
           /\ history' = history)]_vars

C5_Witness ==
    /\ ui.n = 2
    /\ ui.error = "validation:url_invalid"
    /\ enable_rate_limiting
    /\ "default" \in DOMAIN calls
    /\ cache # <<>>

\* C6: the limiter is consulted only when rate limiting is enabled; when it is
\* enabled and denies, the run ends Errored with the value of get_retry_after
\* and without cache lookup, acquisition or summarization.
C6_DenialStopsTheRun ==
    [][UiStep
       => (/\ HasStage(ui'.trace, "is_allowed") => enable_rate_limiting
           /\ (~Invalid(ui'.url, ui'.api_key) /\ DeniedNow)
                 => (/\ ui'.outcome = "errored"
                     /\ ui'.error = "rate_limit"
                     /\ ui'.trace = <<"validate_inputs", "is_allowed",
                                      "get_retry_after">>
                     /\ ui'.retry_after = get_retry_after(calls', "default", now')
                     /\ cache' = cache
                     /\ summarization_service' = summarization_service
                     /\ history' = history))]_vars

C6_Witness ==
    /\ enable_rate_limiting
    /\ ui.n = 2
    /\ ui.error = "rate_limit"
    /\ ui.retry_after > 0
    /\ ui.trace = <<"validate_inputs", "is_allowed", "get_retry_after">>

\* C7: every request, of POST /summarize as of the UI, reaches acquisition only
\* after the rate limiter and then the cache have been consulted.
C7_LimiterAndCacheBeforeAcquisition ==
    \A trace \in {ui.trace, rest.trace} :
        \A i \in 1..Len(trace) :
            trace[i] \in AcqStages =>
                \E j \in 1..(i - 1) : \E k \in (j + 1)..(i - 1) :
                    trace[j] = "is_allowed" /\ trace[k] = "cache.get"

\* C8: when acquisition and summarization both succeed, the summary is in the
\* cache under the request's key before the run is Done, and an identical
\* request (valid, admitted) made within the TTL afterwards finds it.
C8_FreshSummaryCached ==
    [][UiStep
       => (/\ (ui'.outcome = "done" /\ ~ui'.hit)
                 => LET h == get_hash(cache_key(ui'.url, ui'.style, ui'.length))
                    IN /\ h \in DOMAIN cache'
                       /\ cache'[h].value = ui'.summary
                       /\ cache'[h].timestamp = now'
                       /\ \E i \in 1..Len(ui'.trace) : \E j \in (i + 1)..Len(ui'.trace) :
                              /\ ui'.trace[i] = "cache.set"
                              /\ ui'.trace[j] = "display"
           /\ (/\ ui.outcome = "done" /\ ~ui.hit
               /\ SameKey
               /\ ~Invalid(ui'.url, ui'.api_key)
               /\ ~DeniedNow
               /\ now - ui.t_end <= ttl_seconds * TicksPerSec)
                 => (ui'.hit /\ ui'.summary = ui.summary))]_vars

C8_Witness ==
    /\ ui.n = 2
    /\ ui.hit
    /\ ui.summary = "summary two"
    /\ ui.trace = <<"validate_inputs", "is_allowed", "cache.get", "display">>

\* C10: POST /summarize answers with exactly one of 400 (a validation check
\* fails), 422 (a domain error is raised), 500 (any other exception) and 200
\* with status success (otherwise).
DomainErrors == {"YOUTUBE_ERROR", "TRANSCRIPTION_ERROR", "WEBSITE_ERROR",
                 "SUMMARIZATION_ERROR"}

AcquisitionErrors == {"YOUTUBE_ERROR", "TRANSCRIPTION_ERROR"}

\* C11: every failure of download_and_transcribe surfaces as a
\* YouTubeProcessingException or TranscriptionException, every failure of
\* load_and_extract as a WebsiteProcessingException and every failure of
\* summarize as a domain error, and when the cause was a third-party exception
\* its message is kept in the details of the error raised.
C11_ForeignMessageKept ==
    /\ svc.op = "download_and_transcribe" =>
           /\ svc.out.res.ok <=> svc.arg = "ok"
           /\ ~svc.out.res.ok => svc.out.res.error_code \in AcquisitionErrors
           /\ svc.arg \in {"download_raises", "whisper_raises"} =>
                  svc.out.res.original_error = ForeignMessage(svc.arg)
    /\ svc.op = "load_and_extract" =>
           /\ ~svc.out.ok => svc.out.error_code = "WEBSITE_ERROR"
           /\ svc.arg.raises =>
                  (~svc.out.ok
                   /\ svc.out.original_error = ForeignMessage("loader_raises"))
    /\ (svc.op = "summarize" /\ svc.arg.docs # <<>>) =>
           /\ ~svc.out.res.ok => svc.out.res.error_code \in DomainErrors
           /\ svc.arg.llm_init = "raises" =>
                  (~svc.out.res.ok
                   /\ svc.out.res.original_error = ForeignMessage("llm_init_raises"))
           /\ (svc.arg.llm_init = "ok" /\ svc.arg.chain = ChainRaises) =>
                  (~svc.out.res.ok
                   /\ svc.out.res.original_error = ForeignMessage("chain_raises"))

\* the step is an is_allowed call that returns False
DeniedStep == Len(log') = Len(log) + 1 /\ ~log'[Len(log')].ok

\* C12: a denied is_allowed call leaves the recorded state (the tracked
\* identifiers and the timestamps of each) exactly as it was, for an
\* identifier never seen before and for max_calls = 0 too.
C12_DenialChangesNothing ==
    [][DeniedStep => calls' = calls]_vars

\* C12 as amended: a denied call consumes no slot; every tracked identifier
\* keeps its timestamps, and the one change possible is that an identifier
\* never seen before (denied only when max_calls < 1) becomes tracked with an
\* empty list.
C12_DenialConsumesNoSlot ==
    [][DeniedStep =>
          LET id == log'[Len(log')].id
          IN /\ DOMAIN calls' = DOMAIN calls \cup {id}
             /\ \A x \in DOMAIN calls : calls'[x] = calls[x]
             /\ id \notin DOMAIN calls => (max_calls < 1 /\ calls'[id] = <<>>)]_vars

C12_Witness ==
    /\ max_calls = 1
    /\ Len(log) = 3
    /\ log[1].ok /\ ~log[2].ok /\ ~log[3].ok
    /\ log[2].id = log[1].id /\ log[3].id = log[1].id
    /\ log[3].t > log[1].t
    /\ calls[log[1].id] = <<log[1].t>>

\* C13: get_url_type returns, for every input (None, empty and malformed
\* strings too), one of "youtube", "website" and None: None exactly when
\* is_valid_url is false, "youtube" exactly when is_youtube_url holds and
\* "website" exactly when the URL is valid and not a YouTube one; no URL is of
\* both kinds.
C13_UrlTypeTotal ==
    svc.op = "get_url_type" =>
        /\ svc.out \in {"youtube", "website", None}
        /\ svc.out = None <=> ~is_valid_url(svc.arg)
        /\ svc.out = "youtube" <=> is_youtube_url(svc.arg)
        /\ svc.out = "website" <=> (is_valid_url(svc.arg) /\ ~is_youtube_url(svc.arg))
        /\ ~(is_youtube_url(svc.arg) /\ is_website_url(svc.arg))

C13_Witness ==
    /\ svc.op = "get_url_type"
    /\ svc.arg = "www.youtube.com/watch?v=123"
    /\ youtube_regex_matches(svc.arg)
    /\ svc.out = None

\* every character of s is a letter, a digit, "-" or "_"
OnlyKeyChars(s) == \A i \in 1..Len(s) : CharAt(s, i) \in AlnumChars \cup {"-", "_"}

HasAlnum(s) == \E i \in 1..Len(s) : CharAt(s, i) \in AlnumChars

\* C14: validate_groq_key rejects None, the empty string and every string
\* shorter than 10 characters, and accepts every string of 10 or more
\* characters drawn only from letters, digits, "-" and "_".
C14_KeyFormat ==
    svc.op = "validate_groq_key" =>
        /\ (svc.arg = None \/ Len(svc.arg) < 10) => ~svc.out
        /\ (svc.arg # None /\ Len(svc.arg) >= 10 /\ OnlyKeyChars(svc.arg)) => svc.out

\* C14 as amended: the strings of 10 or more such characters that are
\* accepted are those holding at least one letter or digit.
C14_KeyFormatWithAlnum ==
    svc.op = "validate_groq_key" =>
        /\ (svc.arg = None \/ Len(svc.arg) < 10) => ~svc.out
        /\ (svc.arg # None /\ Len(svc.arg) >= 10 /\ OnlyKeyChars(svc.arg)
            /\ HasAlnum(svc.arg)) => svc.out

C14_Witness ==
    /\ svc.op = "validate_groq_key"
    /\ svc.arg = "a---------"
    /\ svc.out

\* C15: every page content a successful load_and_extract returns has at most
\* MAX_WEBSITE_CONTENT_LENGTH characters: a longer content is replaced by its
\* first MAX_WEBSITE_CONTENT_LENGTH characters, any other is returned as it is.
C15_ContentTruncated ==
    (svc.op = "load_and_extract" /\ svc.out.ok) =>
        /\ Len(svc.out.value) = Len(svc.arg.docs)
        /\ \A i \in 1..Len(svc.arg.docs) :
               LET before == svc.arg.docs[i]
                   after == svc.out.value[i]
               IN /\ Len(after) <= MAX_WEBSITE_CONTENT_LENGTH
                  /\ Len(before) > MAX_WEBSITE_CONTENT_LENGTH =>
                         after = SubSeq(before, 1, MAX_WEBSITE_CONTENT_LENGTH)
                  /\ Len(before) <= MAX_WEBSITE_CONTENT_LENGTH => after = before

C15_Witness ==
    /\ svc.op = "load_and_extract"
    /\ svc.out.ok
    /\ Len(svc.arg.docs) = 2
    /\ Len(svc.arg.docs[1]) = MAX_WEBSITE_CONTENT_LENGTH + 1
    /\ Len(svc.arg.docs[2]) = MAX_WEBSITE_CONTENT_LENGTH
    /\ Len(svc.out.value[1]) = MAX_WEBSITE_CONTENT_LENGTH
    /\ svc.out.value[2] = svc.arg.docs[2]

\* C16: for a style that is none of the five, get_summary_prompt returns the
\* template of "balanced" for the same length and summarize does what it does
\* for "balanced" (the style fails no request); for "bullet_points" the
\* template is the same whatever the length.
C16_UnknownStyleIsBalanced ==
    /\ (svc.op = "get_summary_prompt" /\ svc.arg.style \notin SUMMARY_STYLES) =>
           /\ svc.out # PromptRaises
           /\ svc.out = get_summary_prompt("balanced", svc.arg.length)
    /\ (svc.op = "get_summary_prompt" /\ svc.arg.style = "bullet_points") =>
           \A length \in Lengths : svc.out = get_summary_prompt("bullet_points", length)
    /\ (svc.op = "summarize" /\ svc.arg.style \notin SUMMARY_STYLES) =>
           LET balanced == summarize(SummarizationService("valid_groq_key_12345"),
                                     svc.arg.docs, "balanced", svc.arg.length,
                                     svc.arg.llm_init, svc.arg.chain)
           IN svc.out.res = balanced.res /\ svc.out.prompt = balanced.prompt

C16_Witness ==
    /\ svc.op = "summarize"
    /\ svc.arg.style = "haiku"
    /\ svc.arg.length = 100
    /\ svc.out.res.ok
    /\ svc.out.prompt = prompts("balanced", 100)

\* C17: the reading time reported for a text is max(1, word_count // 200),
\* word_count being the number of whitespace-separated words: never below 1
\* (200 words give 1, 400 give 2, 50 give 1); the reading_time of a REST
\* response agrees with its word_count by the same formula.
C17_ReadingTime ==
    /\ svc.op = "estimate_reading_time" =>
           /\ svc.out >= 1
           /\ svc.out = Max2(1, svc.arg.words \div 200)
           /\ svc.arg.words \in {50, 200} => svc.out = 1
           /\ svc.arg.words = 400 => svc.out = 2
    /\ rest.status = "success" =>
           /\ rest.word_count = split_count(rest.summary)
           /\ rest.reading_time >= 1
           /\ rest.reading_time = Max2(1, rest.word_count \div 200)

C17_Witness ==
    /\ svc.op = "estimate_reading_time"
    /\ svc.arg.words = 400
    /\ svc.out = 2
    /\ rest.status = "success"
    /\ rest.word_count = 50
    /\ rest.reading_time = 1

\* C18: on every exit path of download_and_transcribe (success, download
\* failure, missing audio file, transcription failure, empty transcript) the
\* temporary directory and the files created in it for the call are gone when
\* the call returns or raises.
C18_TempFilesGone ==
    svc.op = "download_and_transcribe" =>
        /\ TmpDir \in svc.out.created
        /\ \A path \in svc.out.created : path \notin svc.out.left

C18_Witness ==
    /\ svc.op = "download_and_transcribe"
    /\ svc.arg = "whisper_raises"
    /\ ~svc.out.res.ok
    /\ AudioFile \in svc.out.created
    /\ svc.out.left = {}

\* the number of acquisition stages in a trace
AcquisitionsIn(trace) == Cardinality({i \in 1..Len(trace) : trace[i] \in AcqStages})

\* C19: a request that reaches acquisition invokes exactly one strategy: the
\* YouTube one if and only if the URL is classified "youtube", else the
\* website one; the first request of a session, for a website URL with a valid
\* key, never invokes the YouTube path and reaches summarization unless the
\* website acquisition itself fails.
C19_OneStrategyByKind ==
    [][UiStep =>
          LET trace == ui'.trace
              url_type == UrlTypeOf[ui'.url]
          IN /\ AcquisitionsIn(trace) <= 1
             /\ HasStage(trace, "download_and_transcribe") <=>
                    (Acquires(trace) /\ url_type = "youtube")
             /\ HasStage(trace, "load_and_extract") <=>
                    (Acquires(trace) /\ url_type = "website")
             /\ (ui.n = 0 /\ ~Invalid(ui'.url, ui'.api_key) /\ url_type = "website") =>
                    /\ HasStage(trace, "load_and_extract")
                    /\ ~HasStage(trace, "download_and_transcribe")
                    /\ ui'.error # "WEBSITE_ERROR" => HasStage(trace, "summarize")]_vars

C19_Witness ==
    /\ ui.n = 2
    /\ Len(history) = 2
    /\ history[1].url_type = "website"
    /\ ui.url = "https://youtu.be/123"
    /\ ui.outcome = "done"
    /\ HasStage(ui.trace, "download_and_transcribe")
    /\ ~HasStage(ui.trace, "load_and_extract")

\* C20: is_allowed is not atomic. When calls for one identifier interleave, a
\* state is reached with more than max_calls timestamps recorded, all within
\* one period; and the list gets there only by a thread acting on what it read
\* before another changed the list: an append after a comparison made on a
\* shorter list, or the store of a list filtered from an earlier one.
C20_OverAdmissionByStaleStep ==
    [][(/\ RaceId \in DOMAIN calls
        /\ Len(calls'[RaceId]) > max_calls
        /\ Len(calls'[RaceId]) > Len(calls[RaceId]))
       => \E p \in Threads :
              \/ /\ threads[p].pc = "append" /\ threads'[p].pc = "idle"
                 /\ threads[p].seen < Len(calls[RaceId])
              \/ /\ threads[p].pc = "prune_write" /\ threads'[p].pc = "check"
                 /\ threads[p].filtered # Prune(calls[RaceId], threads[p].now)]_vars

C20_Witness ==
    /\ max_calls >= 1
    /\ RaceId \in DOMAIN calls
    /\ Len(calls[RaceId]) > max_calls
    /\ \A i \in 1..Len(calls[RaceId]) : now - calls[RaceId][i] < Period
    /\ Cardinality({j \in 1..Len(log) : log[j].ok}) > max_calls
    /\ \A p \in Threads : threads[p].pc = "idle"

\* C21: when ChatGroq cannot be constructed while documents are being
\* summarized, the error summarize raises to its caller is the
\* GroqAPIException (GROQ_API_ERROR), not the SummarizationException of the
\* LLM stage.
C21_LlmInitFailureIsGroqError ==
    (/\ svc.op = "summarize"
     /\ svc.arg.docs # <<>>
     /\ svc.arg.llm_init = "raises")
    => (~svc.out.res.ok /\ svc.out.res.error_code = "GROQ_API_ERROR")

\* ------------------------------------------------- engine and credential
\* the run of the step reached the engine (it did not stop at validation, at
\* the limiter or at a cache hit)
EngineStep == UiStep /\ HasStage(ui'.trace, "get_url_type")

\* C22: whatever credentials the requests carry, the engine a request uses has
\* that request's api_key and no client but one built from it: a request whose
\* credential differs from the held engine's gets a newly constructed engine
\* (the client of the old one is not carried over), a request with the held
\* engine's credential keeps it and its client, and a run that does not reach
\* the engine leaves it alone.
C22_EngineBoundToCredential ==
    [][UiStep =>
          /\ EngineStep =>
                /\ summarization_service'.api_key = ui'.api_key
                /\ summarization_service'.llm \in {"none", ui'.api_key}
                /\ HasStage(ui'.trace, "cache.set") =>
                       summarization_service'.llm = ui'.api_key
                /\ summarization_service.api_key = ui'.api_key =>
                       (summarization_service.llm # "none" =>
                            summarization_service' = summarization_service)
          /\ ~EngineStep => summarization_service' = summarization_service]_vars

C22_Witness ==
    /\ ui.n = 2
    /\ ui.api_key = "abcd1234-efgh-5678-ijkl"
    /\ HasStage(ui.trace, "cache.set")
    /\ summarization_service = [api_key |-> "abcd1234-efgh-5678-ijkl",
                                llm |-> "abcd1234-efgh-5678-ijkl"]
    /\ cache # <<>>
    /\ Len(history) = 1

\* ----------------------------------------------------------- cache claims
\* the step is a cache operation; CacheOp is the entry it adds to the history
CacheStep == Len(clog') = Len(clog) + 1

CacheOp == clog'[Len(clog')]

\* the cache holds an entry for the key, expired or not
Present(key) == get_hash(key) \in DOMAIN cache

\* the cache holds an entry for the key that a get made now would find expired
HoldsExpired(key) == Present(key) /\ Expired(cache[get_hash(key)], now)

\* C23: entries leave the cache only on access. get_size() goes up by one on a
\* set of a key not present, down by one on a get of an expired key and to 0
\* on clear (every get made after a clear and before the next set returns
\* None); nothing else changes it: not the passage of time (an expired entry
\* nobody reads stays counted), not a set of a key present, and a get of an
\* absent or unexpired key leaves the cache as it was.
C23_LazyRemoval ==
    [][/\ ~CacheStep => cache' = cache
       /\ CacheStep =>
             /\ CacheOp.op = "set" =>
                   get_size(cache') = get_size(cache)
                                      + (IF Present(CacheOp.key) THEN 0 ELSE 1)
             /\ CacheOp.op = "get" =>
                   IF HoldsExpired(CacheOp.key)
                   THEN /\ get_size(cache') = get_size(cache) - 1
                        /\ CacheOp.value = None
                   ELSE cache' = cache
             /\ CacheOp.op = "clear" => get_size(cache') = 0
             /\ (/\ CacheOp.op = "get"
                 /\ \E i \in 1..Len(clog) :
                        /\ clog[i].op = "clear"
                        /\ \A m \in (i + 1)..Len(clog) : clog[m].op # "set")
                   => CacheOp.value = None]_vars

\* an entry set at time 0 has expired, nobody has read it, and it is counted
C23_Witness ==
    /\ Len(clog) = 2
    /\ clog[1].op = "set" /\ clog[1].key = "test_key" /\ clog[1].t = 0
    /\ clog[2].op = "get" /\ clog[2].key = "key1" /\ clog[2].value = None
    /\ clog[2].t - clog[1].t > ttl_seconds * TicksPerSec
    /\ clog[2].size = 1
    /\ HoldsExpired("test_key")
    /\ get_size(cache) = 1

\* C24: a set on a key the cache holds overwrites the value and resets the
\* timestamp without changing get_size(): after set(k, v1) at t1 and set(k, v2)
\* at t2 >= t1, a get(k) made no later than t2 + ttl_seconds (no set(k, .) or
\* clear() since the second set) returns v2, also when it is made later than
\* t1 + ttl_seconds.
C24_OverwriteResetsTimestamp ==
    [][CacheStep =>
          /\ (CacheOp.op = "set" /\ Present(CacheOp.key)) =>
                /\ get_size(cache') = get_size(cache)
                /\ cache'[get_hash(CacheOp.key)] =
                       [value |-> CacheOp.value, timestamp |-> now]
          /\ CacheOp.op = "get" =>
                \A i \in 1..Len(clog) : \A j \in (i + 1)..Len(clog) :
                    (/\ clog[i].op = "set" /\ clog[i].key = CacheOp.key
                     /\ clog[j].op = "set" /\ clog[j].key = CacheOp.key
                     /\ \A m \in (j + 1)..Len(clog) :
                            /\ clog[m].op # "clear"
                            /\ clog[m].op = "set" => clog[m].key # CacheOp.key
                     /\ CacheOp.t - clog[j].t <= ttl_seconds * TicksPerSec)
                    => CacheOp.value = clog[j].value]_vars

C24_Witness ==
    /\ Len(clog) = 3
    /\ clog[1].op = "set" /\ clog[1].key = "test_key" /\ clog[1].value = "value1"
    /\ clog[2].op = "set" /\ clog[2].key = "test_key" /\ clog[2].value = "value2"
    /\ clog[2].t > clog[1].t
    /\ clog[1].size = 1 /\ clog[2].size = 1
    /\ clog[3].op = "get" /\ clog[3].key = "test_key" /\ clog[3].value = "value2"
    /\ clog[3].t > clog[1].t + ttl_seconds * TicksPerSec
    /\ clog[3].t = clog[2].t + ttl_seconds * TicksPerSec

\* C25: get never returns a stale value. A value get(k) returns was stored by
\* the most recent set(k, .), made at most ttl_seconds before the get; an entry
\* aged exactly ttl_seconds is still a hit, and one aged more than ttl_seconds
\* is deleted and reported as a miss.
C25_NoStaleValue ==
    [][(CacheStep /\ CacheOp.op = "get") =>
          LET k == CacheOp.key
              sets == {i \in 1..Len(clog) : clog[i].op = "set" /\ clog[i].key = k}
              recent == CHOOSE i \in sets : \A m \in sets : m <= i
          IN /\ CacheOp.value # None =>
                   /\ sets # {}
                   /\ CacheOp.value = clog[recent].value
                   /\ CacheOp.t - clog[recent].t <= ttl_seconds * TicksPerSec
                   /\ \A m \in (recent + 1)..Len(clog) : clog[m].op # "clear"
             /\ (Present(k) /\ now - cache[get_hash(k)].timestamp
                                   = ttl_seconds * TicksPerSec) =>
                   (CacheOp.value = cache[get_hash(k)].value /\ cache' = cache)
             /\ (Present(k) /\ now - cache[get_hash(k)].timestamp
                                   > ttl_seconds * TicksPerSec) =>
                   (CacheOp.value = None /\ get_hash(k) \notin DOMAIN cache')]_vars

\* a hit at the age of exactly ttl_seconds, then a miss one tick later that
\* deletes the entry
C25_Witness ==
    /\ Len(clog) = 3
    /\ ttl_seconds = 1
    /\ clog[1].op = "set" /\ clog[1].key = "key1" /\ clog[1].value = "value2"
    /\ clog[2].op = "get" /\ clog[2].key = "key1" /\ clog[2].value = "value2"
    /\ clog[2].t = clog[1].t + ttl_seconds * TicksPerSec
    /\ clog[3].op = "get" /\ clog[3].key = "key1" /\ clog[3].value = None
    /\ clog[3].t = clog[2].t + 1
    /\ cache = <<>>

\* --------------------------------------------------------- limiter claims
\* the step is an is_allowed call for id
IsAllowedStep(id) == Len(log') = Len(log) + 1 /\ log'[Len(log')].id = id

\* C26: the retry-after value is sufficient. With max_calls >= 1, when the
\* latest is_allowed call for an identifier was denied, get_retry_after was
\* read for it afterwards, and the next is_allowed call for it is made that
\* number of seconds after the reading or later, that call is allowed.
C26_RetryAfterSuffices ==
    [][\A id \in Identifiers :
          (/\ IsAllowedStep(id)
           /\ max_calls >= 1
           /\ last.op = "get_retry_after" /\ last.id = id
           /\ LogOf(id) # <<>>
           /\ ~LogOf(id)[Len(LogOf(id))].ok
           /\ now >= last.t + last.ret * TicksPerSec)
          => log'[Len(log')].ok]_vars

\* a call is denied half a second after the first, retry-after is read as 1
\* at once, one second has passed since, and the call made now is allowed
C26_Witness ==
    /\ max_calls = 1
    /\ period_seconds = 1
    /\ Len(log) = 2
    /\ log[1] = [id |-> "default", t |-> 0, ok |-> TRUE]
    /\ log[2] = [id |-> "default", t |-> 1, ok |-> FALSE]
    /\ last = [op |-> "get_retry_after", id |-> "default", ret |-> 1, t |-> 1]
    /\ now = last.t + last.ret * TicksPerSec
    /\ is_allowed(calls, "default", now)

\* -------------------------------------------------- pipeline frame claims
\* C27: with rate limiting enabled, a request that passes validation and is
\* admitted consumes one slot whatever happens next: its timestamp is recorded
\* the same when the summary comes from the cache, when acquisition or
\* summarization fails and when the run is Done; no step takes a recorded
\* timestamp away before its period has passed, so the next valid request
\* within the period is judged against it.
C27_AdmissionConsumesSlot ==
    [][/\ (UiStep /\ enable_rate_limiting /\ ~Invalid(ui'.url, ui'.api_key)) =>
              IF is_allowed(calls, "default", now)
              THEN /\ ui'.error # "rate_limit"
                   /\ calls' = [x \in {"default"} |->
                                   Append(Prune(CallsOf(calls, "default"), now), now)]
              ELSE ui'.error = "rate_limit"
       /\ \A i \in 1..Len(CallsOf(calls, "default")) :
              \/ now - calls["default"][i] >= Period
              \/ calls["default"][i] \in SeqRange(calls'["default"])
       /\ (/\ UiStep /\ enable_rate_limiting /\ ~Invalid(ui'.url, ui'.api_key)
           /\ HasStage(ui.trace, "is_allowed") /\ ui.error # "rate_limit"
           /\ now - calls["default"][1] < Period)
             => ui'.error = "rate_limit"]_vars

\* a run served from the cache has consumed the slot
C27_Witness ==
    /\ enable_rate_limiting
    /\ ui.n = 2
    /\ ui.hit
    /\ ui.trace = <<"validate_inputs", "is_allowed", "cache.get", "display">>
    /\ calls = [x \in {"default"} |-> <<ui.t_end>>]
    /\ ~is_allowed(calls, "default", now)

\* the hash key of the request of ui'
KeyOfRun == get_hash(cache_key(ui'.url, ui'.style, ui'.length))

\* the entries the step wrote: the hash keys whose entry is new or changed
Written == {h \in DOMAIN cache' : h \notin DOMAIN cache \/ cache'[h] # cache[h]}

\* every entry written is the non-empty summary a successful summarization
\* returned in this run, stored under the key of this run's request
StoredOnlyBySuccess ==
    \A h \in Written :
        /\ UiStep
        /\ ui'.outcome = "done"
        /\ HasStage(ui'.trace, "summarize")
        /\ h = KeyOfRun
        /\ cache'[h].value = ui'.summary
        /\ ~IsBlank(cache'[h].value)

\* C28: a request that ends in Errored (validation failure, rate-limit denial
\* or an exception in acquisition or summarization) leaves the cache contents
\* unchanged; so every value ever stored in the cache is a non-empty summary
\* returned by a successful summarization for exactly that (url, style,
\* length) key.
C28_ErroredLeavesCacheUnchanged ==
    [][/\ (UiStep /\ ui'.outcome = "errored") => cache' = cache
       /\ StoredOnlyBySuccess]_vars

\* C28 as amended: a request that ends in Errored stores nothing in the cache;
\* the one change it can make is that its own lookup removes the entry under
\* its key when that entry is older than ttl_seconds. Every value ever stored
\* is a non-empty summary returned by a successful summarization for exactly
\* that key.
C28_ErroredStoresNothing ==
    [][/\ (UiStep /\ ui'.outcome = "errored") =>
              /\ Written = {}
              /\ \A h \in (DOMAIN cache) \ (DOMAIN cache') :
                     /\ h = KeyOfRun
                     /\ now - cache[h].timestamp > ttl_seconds * TicksPerSec
                     /\ HasStage(ui'.trace, "cache.get")
       /\ StoredOnlyBySuccess]_vars

\* the first run stored its summary; the second, for the same key and after
\* the TTL, removed the expired entry and then failed
C28_Witness ==
    /\ ui.n = 2
    /\ ui.outcome = "errored"
    /\ ui.error \in DomainErrors
    /\ Len(history) = 1
    /\ history[1].url = ui.url /\ history[1].style = ui.style
    /\ ui.length = 300
    /\ cache = <<>>

====
